---- MODULE Spec2Model ----
(***************************************************************************)
(* The storage layer of showthem: the flat-file backend (fileStorage) and  *)
(* the PostgreSQL backend (createPgStorage, repeated statement for         *)
(* statement in lib/db), as state machines whose steps are the awaited     *)
(* I/O operations of each method: one fs.readFile, one fs.writeFile, one   *)
(* pool.query.                                                             *)
(***************************************************************************)
EXTENDS Integers, Sequences, FiniteSets, TLC

\* ------------------------------------------------------------------ bounds
MaxGroups == 2      \* entries of a groups array (document or payload)
MaxVideos == 2      \* entries of a videos array / rows of the videos table
MaxClock == 2       \* the last millisecond Date.now() reaches
MaxSerial == 3      \* the last value videos_id_seq hands out

\* ------------------------------------------------------------------ values
ABSENT == "<absent>"   \* a key the object does not carry (JS undefined)
NULL == "<null>"       \* JS null / SQL NULL

GroupIds == {"g1", "g2"}
NameOrder == <<"A", "B">>          \* the collation ORDER BY name uses
Names == {NameOrder[i] : i \in 1..Len(NameOrder)}
AllClients == {"c1", "c2"}

EmptyData == [groups |-> <<>>, videos |-> <<>>]

SeqUpTo(S, n) == UNION {[1..k -> S] : k \in 0..n}

\* ------------------------------------------------------------------ JS helpers
\* JS truthiness of a string-or-missing value: undefined, null and "" are falsy.
Truthy(x) == x \notin {ABSENT, NULL, ""}

\* `x || null`
OrNull(x) == IF Truthy(x) THEN x ELSE NULL

\* node-postgres sends an undefined parameter as NULL
Param(x) == IF x = ABSENT THEN NULL ELSE x

\* `{ ...old, ...updates }`: every key updates carries wins, the others stay
Spread(old, updates) ==
  [f \in DOMAIN old |-> IF updates[f] # ABSENT THEN updates[f] ELSE old[f]]

\* Array.prototype.findIndex(x => x.id === id), 1-based; 0 stands for -1
findIndex(s, id) ==
  IF \E i \in 1..Len(s) : s[i].id = id
  THEN CHOOSE i \in 1..Len(s) :
         s[i].id = id /\ \A j \in 1..(i - 1) : s[j].id # id
  ELSE 0

\* Array.prototype.splice(index, 1)
splice(s, i) == SubSeq(s, 1, i - 1) \o SubSeq(s, i + 1, Len(s))

\* Date.now().toString() at millisecond t / the serial id's toString()
IdString(n) == ToString(n)

\* postgres casting the text parameter of `WHERE id = $n` to integer;
\* -1 stands for "invalid input syntax for type integer"
ParseInt(s) ==
  IF \E n \in 0..(MaxSerial + MaxClock) : ToString(n) = s
  THEN CHOOSE n \in 0..(MaxSerial + MaxClock) : ToString(n) = s
  ELSE -1

\* ------------------------------------------------------------------ state
VARIABLES
  backend,   \* "file" | "pg": chosen once by start() from DATABASE_URL
  file,      \* the parsed content of data.json: [groups, videos]
  groupsT,   \* table groups: set of rows [id, name, description]
  videosT,   \* table videos: set of rows [id, group_id, url, username, caption, description]
  serial,    \* last value handed out by videos_id_seq
  clock,     \* Date.now()
  pc,        \* per client: "idle" or the method it is inside
  local,     \* per client: the method's locals
  last,      \* per client: the last completed call and what it returned
  mode,      \* how requests arrive: "serial" and "videos" (one client, call
             \* after call, the second with fewer shapes of group),
             \* "overlap" (two clients, one call each, interleaved) or
             \* "api" (through the serverless route handlers of api/)
  http       \* per client: the request its route handler is serving

vars == <<backend, file, groupsT, videosT, serial, clock, pc, local, last, mode, http>>

NoTables == [groups |-> {}, videos |-> {}]
NoLocal ==
  [data |-> EmptyData, payload |-> EmptyData, before |-> NoTables, i |-> 0,
   during |-> {}]
NoCall == [op |-> "none", res |-> "none", out |-> EmptyData, during |-> {}]

\* no request: no route, nothing sent
NoRequest == [route |-> "none", method |-> "none", at |-> "none", sent |-> <<>>]

\* the methods the other clients are inside right now
Others(c) == {pc[d] : d \in AllClients \ {c}} \ {"idle"}

\* a call is entered: its locals, with the calls it starts inside of
Enter(c) == [NoLocal EXCEPT !.during = Others(c)]
OneGroup(g) == [groups |-> <<g>>, videos |-> <<>>]
OneVideo(v) == [groups |-> <<>>, videos |-> <<v>>]

\* The call of client c ends: its result is recorded, its locals are gone.
\* `during` keeps the methods other clients were inside from the call's
\* first step to its last.
Return(c, op, res, out) ==
  /\ pc' = [pc EXCEPT ![c] = "idle"]
  /\ local' = [local EXCEPT ![c] = NoLocal]
  /\ last' = [last EXCEPT ![c] =
       [op |-> op, res |-> res, out |-> out,
        during |-> IF pc[c] = "idle" THEN Others(c)
                   ELSE local[c].during \cap Others(c)]]

Tables == <<groupsT, videosT, serial>>

\* ------------------------------------------------------------------ init
\* start(): one backend; fileStorage.init() writes {groups: [], videos: []}
\* when data.json is missing, createPgStorage.init() creates empty tables.
InitBackend(b) ==
  /\ backend = b
  /\ file = EmptyData
  /\ groupsT = {}
  /\ videosT = {}
  /\ serial = 0
  /\ clock = 1
  /\ pc = [c \in AllClients |-> "idle"]
  /\ local = [c \in AllClients |-> NoLocal]
  /\ last = [c \in AllClients |-> NoCall]
  /\ http = [c \in AllClients |-> NoRequest]

Init == mode = "serial" /\ \E b \in {"file", "pg"} : InitBackend(b)

\* the wall clock advances between any two steps
Tick ==
  /\ clock < MaxClock
  /\ clock' = clock + 1
  /\ UNCHANGED <<mode, http, backend, file, groupsT, videosT, serial, pc, local, last>>

\* ================================================================== callers
\* What the callers send.  A universe names the clients that issue calls
\* and the request bodies and ids they use.
Group(id, name, description) ==
  [id |-> id, name |-> name, description |-> description]

Video(id, groupId, url, username, caption, description) ==
  [id |-> id, groupId |-> groupId, url |-> url, username |-> username,
   caption |-> caption, description |-> description]

\* one caller at a time; groups in every shape, videos of one shape per group
SeqU ==
  [clients |-> {"c1"},
   groups |-> {Group(i, n, d) : i \in GroupIds, n \in Names, d \in {"", "d"}},
   gids |-> GroupIds,
   gpatches |-> {Group(i, n, d) : i \in GroupIds \cup {ABSENT},
                                  n \in Names \cup {ABSENT},
                                  d \in {ABSENT, "", "d"}},
   videos |-> {Video(ABSENT, g, "u", "n", "", ABSENT) : g \in GroupIds},
   vids |-> {"1", "2", "x"},
   vpatches |-> {Video(ABSENT, "g1", "u", "n", "", ABSENT),
                 Video(ABSENT, ABSENT, ABSENT, ABSENT, "", ABSENT),
                 Video("2", "g2", "u", "n", "", ABSENT)},
   pgroups |-> {Group("g1", "B", ""), Group("g2", "A", "d")},
   pvideos |-> {Video(ABSENT, "g1", "u", "n", "", ABSENT)}]

\* two overlapping requests, each client issuing one call
ConcU ==
  [clients |-> AllClients,
   groups |-> {Group(i, "A", "") : i \in GroupIds},
   gids |-> {"g1"},
   gpatches |-> {Group("g2", ABSENT, ABSENT), Group("g2", "B", "d"),
                 Group(ABSENT, "B", "")},
   videos |-> {Video(ABSENT, "g1", "u", "n", "", ABSENT)},
   vids |-> {"1"},
   vpatches |-> {Video(ABSENT, "g1", "u", "n", "c", ABSENT)},
   pgroups |-> {Group("g2", "A", "")},
   pvideos |-> {Video(ABSENT, "g2", "u", "n", "", ABSENT)}]

\* the requests sent to the route handlers of api/, one at a time
ApiU ==
  [clients |-> {"c1"},
   groups |-> {Group("g1", "A", "")},
   gids |-> {"g1"},
   gpatches |-> {Group(ABSENT, "B", "")},
   videos |-> {Video(ABSENT, "g1", "u", "n", "", ABSENT)},
   vids |-> {"1", "x"},
   vpatches |-> {Video(ABSENT, "g1", "u", "n", "c", ABSENT)},
   pgroups |-> {Group("g1", "A", "")},
   pvideos |-> {Video(ABSENT, "g1", "u", "n", "", ABSENT)}]

\* one caller at a time, working on videos: one shape of group, every
\* video call with ids and groups that exist and that do not
VideoU ==
  [clients |-> {"c1"},
   groups |-> {Group("g1", "A", "")},
   gids |-> {"g1"},
   gpatches |-> {Group("g2", "A", ABSENT)},
   videos |-> {Video(ABSENT, g, "u", "n", "", ABSENT) : g \in GroupIds},
   vids |-> {"1", "2", "x"},
   vpatches |-> {Video(ABSENT, "g1", "u", "n", "", ABSENT),
                 Video(ABSENT, ABSENT, ABSENT, ABSENT, "", ABSENT),
                 Video("2", "g2", "u", "n", "", ABSENT)},
   pgroups |-> {Group("g1", "A", "")},
   pvideos |-> {Video(ABSENT, "g1", "u", "n", "", ABSENT)}]

U ==
  CASE mode = "overlap" -> ConcU
    [] mode = "api" -> ApiU
    [] mode = "videos" -> VideoU
    [] OTHER -> SeqU

Payloads ==
  {[groups |-> gs, videos |-> vs] :
     gs \in SeqUpTo(U.pgroups, MaxGroups), vs \in SeqUpTo(U.pvideos, MaxVideos)}

\* client c may issue a call: it is in no call, in "overlap" it has issued
\* none before, and in "api" its handler is inside `try` and has made no
\* call yet
Idle(c) ==
  /\ c \in U.clients
  /\ pc[c] = "idle"
  /\ mode = "overlap" => last[c] = NoCall
  /\ mode = "api" => (http[c].at = "try" /\ last[c] = NoCall)

\* ================================================================== flat file
FileMutators ==
  {"createGroup", "updateGroup", "deleteGroup", "createVideo", "updateVideo", "deleteVideo"}

\* fileStorage.getData(): the whole document, as one read
fileStorage_getData(c) ==
  /\ backend = "file" /\ Idle(c)
  /\ Return(c, "getData", "ok", file)
  /\ UNCHANGED <<mode, http, backend, file, Tables, clock>>

\* fileStorage.saveData(data): the document is overwritten with the payload
fileStorage_saveData(c, data) ==
  /\ backend = "file" /\ Idle(c)
  /\ file' = data
  /\ Return(c, "saveData", "ok", EmptyData)
  /\ UNCHANGED <<mode, http, backend, Tables, clock>>

fileStorage_getGroups(c) ==
  /\ backend = "file" /\ Idle(c)
  /\ Return(c, "getGroups", "ok", [groups |-> file.groups, videos |-> <<>>])
  /\ UNCHANGED <<mode, http, backend, file, Tables, clock>>

fileStorage_getVideos(c) ==
  /\ backend = "file" /\ Idle(c)
  /\ Return(c, "getVideos", "ok", [groups |-> <<>>, videos |-> file.videos])
  /\ UNCHANGED <<mode, http, backend, file, Tables, clock>>

\* Every mutator opens with `const data = await this.getData()`: the call
\* is entered and the document read; what follows works on that copy.
fileStorage_read(c, op) ==
  /\ backend = "file" /\ Idle(c)
  /\ op \in FileMutators
  /\ op = "createGroup" => Len(file.groups) < MaxGroups
  /\ op = "createVideo" => Len(file.videos) < MaxVideos
  /\ pc' = [pc EXCEPT ![c] = op]
  /\ local' = [local EXCEPT ![c] = [Enter(c) EXCEPT !.data = file]]
  /\ last' = [last EXCEPT ![c] = NoCall]
  /\ UNCHANGED <<mode, http, backend, file, Tables, clock>>

\* the rest of a mutator: `await this.saveData(data)` of the changed copy
FileSave(c, op, data, res, out) ==
  /\ file' = data
  /\ Return(c, op, res, out)
  /\ UNCHANGED <<mode, http, backend, Tables, clock>>

\* the rest of a mutator that returns before saving
FileSkip(c, op, res) ==
  /\ Return(c, op, res, EmptyData)
  /\ UNCHANGED <<mode, http, backend, file, Tables, clock>>

createGroupData(data, group) ==
  [data EXCEPT !.groups = Append(@, group)]

\* a createGroup that appends to the document as it is when it writes
fileStorage_createGroup_fresh(c, group) ==
  /\ backend = "file" /\ pc[c] = "createGroup"
  /\ FileSave(c, "createGroup", createGroupData(file, group),
              "ok", OneGroup(group))

fileStorage_createGroup(c, group) ==
  /\ backend = "file" /\ pc[c] = "createGroup"
  /\ FileSave(c, "createGroup", createGroupData(local[c].data, group),
              "ok", OneGroup(group))

\* an updateGroup that leaves the video references as they are
repointVideos_none(videos, id, updates) == videos

\* lines 61-65: re-point the videos, only when updates.id is truthy and new
repointVideos(videos, id, updates) ==
  IF Truthy(updates.id) /\ updates.id # id
  THEN [k \in 1..Len(videos) |->
          IF videos[k].groupId = id
          THEN [videos[k] EXCEPT !.groupId = updates.id]
          ELSE videos[k]]
  ELSE videos

updateGroupData(data, id, updates) ==
  LET index == findIndex(data.groups, id) IN
  [groups |-> [data.groups EXCEPT ![index] = Spread(@, updates)],
   videos |-> repointVideos(data.videos, id, updates)]

fileStorage_updateGroup(c, id, updates) ==
  /\ backend = "file" /\ pc[c] = "updateGroup"
  /\ LET data == local[c].data
         index == findIndex(data.groups, id) IN
     IF index = 0
     THEN FileSkip(c, "updateGroup", "null")
     ELSE LET new == updateGroupData(data, id, updates) IN
          FileSave(c, "updateGroup", new, "ok", OneGroup(new.groups[index]))

deleteGroupData(data, id) ==
  [groups |-> splice(data.groups, findIndex(data.groups, id)),
   videos |-> SelectSeq(data.videos, LAMBDA v : v.groupId # id)]

fileStorage_deleteGroup(c, id) ==
  /\ backend = "file" /\ pc[c] = "deleteGroup"
  /\ LET data == local[c].data IN
     IF findIndex(data.groups, id) = 0
     THEN FileSkip(c, "deleteGroup", "false")
     ELSE FileSave(c, "deleteGroup", deleteGroupData(data, id), "true", EmptyData)

\* line 91: video.id = Date.now().toString()
newVideoId(now) == IdString(now)

fileStorage_createVideo(c, video) ==
  /\ backend = "file" /\ pc[c] = "createVideo"
  /\ LET v == [video EXCEPT !.id = newVideoId(clock)] IN
     FileSave(c, "createVideo",
              [local[c].data EXCEPT !.videos = Append(@, v)], "ok", OneVideo(v))

\* an updateVideo that takes the video out and pushes the updated one
updateVideoData_moveToEnd(data, id, updates) ==
  LET index == findIndex(data.videos, id) IN
  [data EXCEPT !.videos = Append(splice(@, index), Spread(@[index], updates))]

updateVideoData(data, id, updates) ==
  [data EXCEPT !.videos[findIndex(data.videos, id)] = Spread(@, updates)]

fileStorage_updateVideo(c, id, updates) ==
  /\ backend = "file" /\ pc[c] = "updateVideo"
  /\ LET data == local[c].data
         index == findIndex(data.videos, id) IN
     IF index = 0
     THEN FileSkip(c, "updateVideo", "null")
     ELSE LET new == updateVideoData(data, id, updates) IN
          FileSave(c, "updateVideo", new, "ok", OneVideo(new.videos[index]))

deleteVideoData(data, id) ==
  [data EXCEPT !.videos = splice(@, findIndex(data.videos, id))]

fileStorage_deleteVideo(c, id) ==
  /\ backend = "file" /\ pc[c] = "deleteVideo"
  /\ LET data == local[c].data IN
     IF findIndex(data.videos, id) = 0
     THEN FileSkip(c, "deleteVideo", "false")
     ELSE FileSave(c, "deleteVideo", deleteVideoData(data, id), "true", EmptyData)

\* ================================================================== postgres
\* the row `INSERT INTO groups (id, name, description) VALUES ($1, $2, $3)`
\* builds from [group.id, group.name, group.description || null]
GroupRow(group) ==
  [id |-> Param(group.id), name |-> Param(group.name),
   description |-> OrNull(group.description)]

\* PRIMARY KEY (not null, unique) and name NOT NULL
GroupRowOK(row, G) ==
  /\ row.id # NULL
  /\ row.name # NULL
  /\ \A g \in G : g.id # row.id

\* the row `INSERT INTO videos (group_id, url, username, caption, description)`
\* builds, with the id the SERIAL default supplies
VideoRow(video, id) ==
  [id |-> id, group_id |-> Param(video.groupId), url |-> Param(video.url),
   username |-> Param(video.username), caption |-> OrNull(video.caption),
   description |-> OrNull(video.description)]

\* a videos table declared without the reference to groups
VideoRowOK_noReference(row, G) ==
  /\ row.url # NULL
  /\ row.username # NULL

\* url and username NOT NULL; group_id REFERENCES groups(id), NULL allowed
VideoRowOK(row, G) ==
  /\ row.url # NULL
  /\ row.username # NULL
  /\ row.group_id = NULL \/ \E g \in G : g.id = row.group_id

\* `SELECT id, group_id as "groupId", ...` and `{ ...v, id: v.id.toString() }`
VideoOfRow(r) ==
  [id |-> IdString(r.id), groupId |-> r.group_id, url |-> r.url,
   username |-> r.username, caption |-> r.caption, description |-> r.description]

NameRank(n) == CHOOSE i \in 1..Len(NameOrder) : NameOrder[i] = n

\* `SELECT * FROM groups ORDER BY name`: every order of the rows that is
\* ascending by name (rows of equal name come in any order)
OrderByName(G) ==
  {s \in [1..Cardinality(G) -> G] :
     /\ \A i, j \in DOMAIN s : i # j => s[i] # s[j]
     /\ \A i, j \in DOMAIN s : i < j => NameRank(s[i].name) <= NameRank(s[j].name)}

\* `... FROM videos ORDER BY id`
RECURSIVE OrderById(_)
OrderById(V) ==
  IF V = {} THEN <<>>
  ELSE LET m == CHOOSE v \in V : \A w \in V : v.id <= w.id IN
       <<m>> \o OrderById(V \ {m})

SelectVideos(V) ==
  LET rows == OrderById(V) IN [k \in 1..Len(rows) |-> VideoOfRow(rows[k])]

PgReturn(c, op, res, out) ==
  /\ Return(c, op, res, out)
  /\ UNCHANGED <<mode, http, backend, file, clock>>

pgStorage_getGroups(c) ==
  /\ backend = "pg" /\ Idle(c)
  /\ \E rows \in OrderByName(groupsT) :
       PgReturn(c, "getGroups", "ok", [groups |-> rows, videos |-> <<>>])
  /\ UNCHANGED Tables

pgStorage_getVideos(c) ==
  /\ backend = "pg" /\ Idle(c)
  /\ PgReturn(c, "getVideos", "ok", [groups |-> <<>>, videos |-> SelectVideos(videosT)])
  /\ UNCHANGED Tables

\* getData(): `await this.getGroups()`, the first of its two queries
pgStorage_getData_groups(c) ==
  /\ backend = "pg" /\ Idle(c)
  /\ \E rows \in OrderByName(groupsT) :
       local' = [local EXCEPT ![c] = [Enter(c) EXCEPT !.data.groups = rows]]
  /\ pc' = [pc EXCEPT ![c] = "getData"]
  /\ last' = [last EXCEPT ![c] = NoCall]
  /\ UNCHANGED <<mode, http, backend, file, clock, Tables>>

\* getData(): `await this.getVideos()`, then `return { groups, videos }`
pgStorage_getData_videos(c) ==
  /\ backend = "pg" /\ pc[c] = "getData"
  /\ PgReturn(c, "getData", "ok",
              [groups |-> local[c].data.groups, videos |-> SelectVideos(videosT)])
  /\ UNCHANGED Tables

pgStorage_createGroup(c, group) ==
  /\ backend = "pg" /\ Idle(c)
  /\ LET row == GroupRow(group) IN
     IF GroupRowOK(row, groupsT)
     THEN /\ groupsT' = groupsT \cup {row}
          /\ PgReturn(c, "createGroup", "ok", OneGroup(group))
     ELSE /\ groupsT' = groupsT
          /\ PgReturn(c, "createGroup", "error", EmptyData)
  /\ UNCHANGED <<videosT, serial>>

\* `UPDATE groups SET id = $1, name = $2, description = $3 WHERE id = $4`
\* with [updates.id || id, updates.name, updates.description || null, id]
updateGroupRow(id, updates) ==
  [id |-> IF Truthy(updates.id) THEN updates.id ELSE id,
   name |-> Param(updates.name),
   description |-> OrNull(updates.description)]

\* what makes the UPDATE of the row with key id fail: name NOT NULL, the
\* primary key, and the videos' foreign key, which declares no ON UPDATE
\* action (NO ACTION: a key that videos still reference cannot change)
updateGroupFails(id, row, G, V) ==
  \/ row.name = NULL
  \/ row.id # id /\ \E g \in G : g.id = row.id
  \/ row.id # id /\ \E v \in V : v.group_id = id

pgStorage_updateGroup(c, id, updates) ==
  /\ backend = "pg" /\ Idle(c)
  /\ LET row == updateGroupRow(id, updates)
         hit == {g \in groupsT : g.id = id} IN
     IF hit = {}
     THEN /\ groupsT' = groupsT
          /\ PgReturn(c, "updateGroup", "null", EmptyData)
     ELSE IF updateGroupFails(id, row, groupsT, videosT)
     THEN /\ groupsT' = groupsT
          /\ PgReturn(c, "updateGroup", "error", EmptyData)
     ELSE /\ groupsT' = (groupsT \ hit) \cup {row}
          /\ PgReturn(c, "updateGroup", "ok", OneGroup(row))
  /\ UNCHANGED <<videosT, serial>>

\* `DELETE FROM groups WHERE id = $1`, with ON DELETE CASCADE on videos
pgStorage_deleteGroup(c, id) ==
  /\ backend = "pg" /\ Idle(c)
  /\ groupsT' = {g \in groupsT : g.id # id}
  /\ videosT' = IF \E g \in groupsT : g.id = id
                THEN {v \in videosT : v.group_id # id}
                ELSE videosT
  /\ PgReturn(c, "deleteGroup",
              IF \E g \in groupsT : g.id = id THEN "true" ELSE "false", EmptyData)
  /\ UNCHANGED serial

\* the INSERT draws nextval before its constraints are checked: a failed
\* insert still uses up an id
pgStorage_createVideo(c, video) ==
  /\ backend = "pg" /\ Idle(c)
  /\ serial < MaxSerial
  /\ Cardinality(videosT) < MaxVideos
  /\ serial' = serial + 1
  /\ LET row == VideoRow(video, serial + 1) IN
     IF VideoRowOK(row, groupsT)
     THEN /\ videosT' = videosT \cup {row}
          /\ PgReturn(c, "createVideo", "ok",
                      OneVideo([video EXCEPT !.id = IdString(row.id)]))
     ELSE /\ videosT' = videosT
          /\ PgReturn(c, "createVideo", "error", EmptyData)
  /\ UNCHANGED groupsT

pgStorage_updateVideo(c, id, updates) ==
  /\ backend = "pg" /\ Idle(c)
  /\ LET n == ParseInt(id)
         hit == {v \in videosT : v.id = n} IN
     IF n = -1
     THEN /\ videosT' = videosT
          /\ PgReturn(c, "updateVideo", "error", EmptyData)
     ELSE IF hit = {}
     THEN /\ videosT' = videosT
          /\ PgReturn(c, "updateVideo", "null", EmptyData)
     ELSE LET row == VideoRow(updates, n) IN
          IF VideoRowOK(row, groupsT)
          THEN /\ videosT' = (videosT \ hit) \cup {row}
               /\ PgReturn(c, "updateVideo", "ok", OneVideo(VideoOfRow(row)))
          ELSE /\ videosT' = videosT
               /\ PgReturn(c, "updateVideo", "error", EmptyData)
  /\ UNCHANGED <<groupsT, serial>>

pgStorage_deleteVideo(c, id) ==
  /\ backend = "pg" /\ Idle(c)
  /\ LET n == ParseInt(id) IN
     IF n = -1
     THEN /\ videosT' = videosT
          /\ PgReturn(c, "deleteVideo", "error", EmptyData)
     ELSE /\ videosT' = {v \in videosT : v.id # n}
          /\ PgReturn(c, "deleteVideo",
                      IF \E v \in videosT : v.id = n THEN "true" ELSE "false", EmptyData)
  /\ UNCHANGED <<groupsT, serial>>

\* saveData(data), statement by statement.  local.i counts the statements
\* already run: DELETE FROM videos, DELETE FROM groups, one INSERT per
\* group, one INSERT per video.  local.before keeps the tables as the call
\* found them.
SaveStatements(data) == 2 + Len(data.groups) + Len(data.videos)

\* `await pool.query('DELETE FROM videos')`
pgStorage_saveData_begin(c, data) ==
  /\ backend = "pg" /\ Idle(c)
  /\ serial + Len(data.videos) <= MaxSerial
  /\ videosT' = {}
  /\ pc' = [pc EXCEPT ![c] = "saveData"]
  /\ local' = [local EXCEPT ![c] =
       [Enter(c) EXCEPT !.payload = data, !.i = 1,
                       !.before = [groups |-> groupsT, videos |-> videosT]]]
  /\ last' = [last EXCEPT ![c] = NoCall]
  /\ UNCHANGED <<mode, http, backend, file, clock, groupsT, serial>>

\* the statement is done: the next one follows, or the call returns
SaveNext(c) ==
  IF local[c].i + 1 = SaveStatements(local[c].payload)
  THEN Return(c, "saveData", "ok", EmptyData)
  ELSE /\ local' = [local EXCEPT ![c].i = @ + 1]
       /\ UNCHANGED <<pc, last>>

\* `await pool.query('DELETE FROM groups')`, cascading to their videos
pgStorage_saveData_deleteGroups(c) ==
  /\ backend = "pg" /\ pc[c] = "saveData" /\ local[c].i = 1
  /\ groupsT' = {}
  /\ videosT' = {v \in videosT : v.group_id = NULL}
  /\ SaveNext(c)
  /\ UNCHANGED <<mode, http, backend, file, clock, serial>>

pgStorage_saveData_insertGroup(c) ==
  /\ backend = "pg" /\ pc[c] = "saveData"
  /\ LET data == local[c].payload
         k == local[c].i - 1 IN
     /\ k \in 1..Len(data.groups)
     /\ LET row == GroupRow(data.groups[k]) IN
        IF GroupRowOK(row, groupsT)
        THEN /\ groupsT' = groupsT \cup {row}
             /\ SaveNext(c)
        ELSE /\ groupsT' = groupsT
             /\ Return(c, "saveData", "error", EmptyData)
  /\ UNCHANGED <<mode, http, backend, file, clock, videosT, serial>>

pgStorage_saveData_insertVideo(c) ==
  /\ backend = "pg" /\ pc[c] = "saveData"
  /\ serial < MaxSerial
  /\ LET data == local[c].payload
         k == local[c].i - 1 - Len(data.groups) IN
     /\ k \in 1..Len(data.videos)
     /\ serial' = serial + 1
     /\ LET row == VideoRow(data.videos[k], serial + 1) IN
        IF VideoRowOK(row, groupsT)
        THEN /\ videosT' = videosT \cup {row}
             /\ SaveNext(c)
        ELSE /\ videosT' = videosT
             /\ Return(c, "saveData", "error", EmptyData)
  /\ UNCHANGED <<mode, http, backend, file, clock, groupsT>>

FileStep(c) ==
  \/ fileStorage_getData(c)
  \/ fileStorage_getGroups(c)
  \/ fileStorage_getVideos(c)
  \/ \E data \in Payloads : fileStorage_saveData(c, data)
  \/ \E op \in FileMutators : fileStorage_read(c, op)
  \/ \E group \in U.groups : fileStorage_createGroup(c, group)
  \/ \E id \in U.gids, updates \in U.gpatches : fileStorage_updateGroup(c, id, updates)
  \/ \E id \in U.gids : fileStorage_deleteGroup(c, id)
  \/ \E video \in U.videos : fileStorage_createVideo(c, video)
  \/ \E id \in U.vids, updates \in U.vpatches : fileStorage_updateVideo(c, id, updates)
  \/ \E id \in U.vids : fileStorage_deleteVideo(c, id)

PgStep(c) ==
  \/ pgStorage_getGroups(c)
  \/ pgStorage_getVideos(c)
  \/ pgStorage_getData_groups(c)
  \/ pgStorage_getData_videos(c)
  \/ \E data \in Payloads : pgStorage_saveData_begin(c, data)
  \/ pgStorage_saveData_deleteGroups(c)
  \/ pgStorage_saveData_insertGroup(c)
  \/ pgStorage_saveData_insertVideo(c)
  \/ \E group \in U.groups : pgStorage_createGroup(c, group)
  \/ \E id \in U.gids, updates \in U.gpatches : pgStorage_updateGroup(c, id, updates)
  \/ \E id \in U.gids : pgStorage_deleteGroup(c, id)
  \/ \E video \in U.videos : pgStorage_createVideo(c, video)
  \/ \E id \in U.vids, updates \in U.vpatches : pgStorage_updateVideo(c, id, updates)
  \/ \E id \in U.vids : pgStorage_deleteVideo(c, id)

Next == Tick \/ \E c \in AllClients : FileStep(c) \/ PgStep(c)

\* calls arrive one after the other, on a fresh store
Spec == Init /\ [][Next]_vars

\* calls arrive one after the other, most of them about videos
InitVideo == mode = "videos" /\ \E b \in {"file", "pg"} : InitBackend(b)

SpecVideo == InitVideo /\ [][Next]_vars

\* Two requests overlap, on a store that is fresh or holds one group and
\* one video of it (created by createGroup and createVideo at time 1).
StartGroup == Group("g1", "A", "")
StartVideo == Video(ABSENT, "g1", "u", "n", "", ABSENT)

InitConc ==
  /\ mode = "overlap"
  /\ \E b \in {"file", "pg"} :
       \/ InitBackend(b)
       \/ /\ backend = b
          /\ file = IF b = "file"
                    THEN [groups |-> <<StartGroup>>,
                          videos |-> <<[StartVideo EXCEPT !.id = newVideoId(1)]>>]
                    ELSE EmptyData
          /\ groupsT = IF b = "pg" THEN {GroupRow(StartGroup)} ELSE {}
          /\ videosT = IF b = "pg" THEN {VideoRow(StartVideo, 1)} ELSE {}
          /\ serial = IF b = "pg" THEN 1 ELSE 0
          /\ clock = 1
          /\ pc = [c \in AllClients |-> "idle"]
          /\ local = [c \in AllClients |-> NoLocal]
          /\ last = [c \in AllClients |-> NoCall]
          /\ http = [c \in AllClients |-> NoRequest]

SpecConc == InitConc /\ [][Next]_vars

\* ================================================================== api/
\* The serverless route handlers: api/groups/index.js, api/groups/[id].js,
\* api/videos/[id].js and the /data handler, over lib/db (the statements
\* of createPgStorage, plus getPool and initDb).  backend = "none" stands
\* for a deployment without DATABASE_URL.
Routes == {"groups", "groups/[id]", "videos/[id]", "data"}
Methods == {"GET", "POST", "PUT", "DELETE"}

\* the methods a handler has a branch for
Allowed(route) ==
  CASE route = "groups" -> {"GET", "POST"}
    [] route = "data" -> {"GET", "PUT"}
    [] OTHER -> {"PUT", "DELETE"}

\* the handlers that run `await initDb()` before their `try`
InitDbOutsideTry(route) == route \in {"groups", "groups/[id]", "videos/[id]"}

\* res.status(status).json(...)
Respond(h, status) == [h EXCEPT !.at = "responded", !.sent = Append(@, status)]

\* an await of handler h throws: inside `try` the catch answers 500,
\* outside it the handler's promise rejects and nothing is sent
Thrown(h) ==
  IF h.at \in {"initDb", "initDb2"} /\ InitDbOutsideTry(h.route)
  THEN [h EXCEPT !.at = "rejected"]
  ELSE Respond(h, "500")

\* the status the handler sends for what the lib/db call returned
StatusOf(h, res) ==
  IF res = "error" THEN "500"
  ELSE IF res \in {"null", "false"} THEN "404"
  ELSE IF h.route = "groups" /\ h.method = "POST" THEN "201"
  ELSE "200"

ApiFrame == UNCHANGED <<mode, backend, file, Tables, clock, pc, local>>

\* a request reaches a handler
handler_request(c, route, method) ==
  /\ mode = "api" /\ c \in U.clients /\ pc[c] = "idle"
  /\ http[c].at \in {"none", "responded", "rejected"}
  /\ http' = [http EXCEPT ![c] =
       [route |-> route, method |-> method, at |-> "initDb", sent |-> <<>>]]
  /\ last' = [last EXCEPT ![c] = NoCall]
  /\ ApiFrame

\* initDb(): `if (!db) return`, else CREATE TABLE IF NOT EXISTS groups,
\* which succeeds or throws (database unreachable)
initDb_groups(c, ok) ==
  /\ mode = "api" /\ http[c].at = "initDb"
  /\ http' = [http EXCEPT ![c] =
       IF backend # "pg" THEN [@ EXCEPT !.at = "try"]
       ELSE IF ok THEN [@ EXCEPT !.at = "initDb2"]
       ELSE Thrown(@)]
  /\ UNCHANGED last
  /\ ApiFrame

\* initDb(): CREATE TABLE IF NOT EXISTS videos
initDb_videos(c, ok) ==
  /\ mode = "api" /\ http[c].at = "initDb2"
  /\ http' = [http EXCEPT ![c] = IF ok THEN [@ EXCEPT !.at = "try"] ELSE Thrown(@)]
  /\ UNCHANGED last
  /\ ApiFrame

\* the handler is inside `try`, serving method on route
Serving(c, route, method) ==
  /\ mode = "api" /\ http[c].at = "try"
  /\ http[c].route = route /\ http[c].method = method

\* no branch for the method: 405
handler_notAllowed(c) ==
  /\ mode = "api" /\ http[c].at = "try" /\ last[c] = NoCall
  /\ http[c].method \notin Allowed(http[c].route)
  /\ http' = [http EXCEPT ![c] = Respond(@, "405")]
  /\ UNCHANGED last
  /\ ApiFrame

\* without DATABASE_URL getPool() returns null and the lib/db function
\* throws (getData and saveData by their own check, the others on
\* db.query); the catch answers 500
handler_noPool(c) ==
  /\ mode = "api" /\ http[c].at = "try" /\ last[c] = NoCall
  /\ backend # "pg"
  /\ http[c].method \in Allowed(http[c].route)
  /\ http' = [http EXCEPT ![c] = Thrown(@)]
  /\ UNCHANGED last
  /\ ApiFrame

\* the lib/db call has returned or thrown: the handler sends its answer
handler_respond(c) ==
  /\ mode = "api" /\ http[c].at = "try"
  /\ pc[c] = "idle" /\ last[c].op # "none"
  /\ http' = [http EXCEPT ![c] = Respond(@, StatusOf(@, last[c].res))]
  /\ UNCHANGED last
  /\ ApiFrame

\* the lib/db call of each branch
ApiStep(c) ==
  \/ Serving(c, "groups", "GET") /\ pgStorage_getGroups(c)
  \/ \E group \in U.groups :
       Serving(c, "groups", "POST") /\ pgStorage_createGroup(c, group)
  \/ \E id \in U.gids, updates \in U.gpatches :
       Serving(c, "groups/[id]", "PUT") /\ pgStorage_updateGroup(c, id, updates)
  \/ \E id \in U.gids :
       Serving(c, "groups/[id]", "DELETE") /\ pgStorage_deleteGroup(c, id)
  \/ \E id \in U.vids, updates \in U.vpatches :
       Serving(c, "videos/[id]", "PUT") /\ pgStorage_updateVideo(c, id, updates)
  \/ \E id \in U.vids :
       Serving(c, "videos/[id]", "DELETE") /\ pgStorage_deleteVideo(c, id)
  \/ Serving(c, "data", "GET") /\ pgStorage_getData_groups(c)
  \/ Serving(c, "data", "GET") /\ pgStorage_getData_videos(c)
  \/ \E data \in Payloads :
       Serving(c, "data", "PUT") /\ pgStorage_saveData_begin(c, data)
  \/ Serving(c, "data", "PUT") /\ pgStorage_saveData_deleteGroups(c)
  \/ Serving(c, "data", "PUT") /\ pgStorage_saveData_insertGroup(c)
  \/ Serving(c, "data", "PUT") /\ pgStorage_saveData_insertVideo(c)

HandlerStep(c) ==
  \/ \E route \in Routes, method \in Methods : handler_request(c, route, method)
  \/ \E ok \in BOOLEAN : initDb_groups(c, ok)
  \/ \E ok \in BOOLEAN : initDb_videos(c, ok)
  \/ handler_notAllowed(c)
  \/ handler_noPool(c)
  \/ handler_respond(c)

NextApi == \E c \in AllClients : HandlerStep(c) \/ ApiStep(c)

InitApi == mode = "api" /\ \E b \in {"pg", "none"} : InitBackend(b)

\* requests served by the route handlers
SpecApi == InitApi /\ [][NextApi]_vars

\* ================================================================== properties
Range(s) == {s[k] : k \in 1..Len(s)}

FileHasGroup(id) == \E g \in Range(file.groups) : g.id = id
PgHasGroup(id) == \E g \in groupsT : g.id = id

\* C1: on either backend no two group records of the dataset share an id.
C1_GroupIdsUnique ==
  /\ \A i, j \in 1..Len(file.groups) :
       i # j => file.groups[i].id # file.groups[j].id
  /\ \A g, h \in groupsT : g.id = h.id => g = h

\* C2: createGroup(group), called when a group with group.id exists, fails
\* and leaves the dataset as it was, on both backends.
C2_CreateGroupDuplicateFails ==
  [][\A c \in AllClients, group \in U.groups :
       /\ (fileStorage_createGroup(c, group) /\ FileHasGroup(group.id))
            => (last'[c].res = "error" /\ file' = file)
       /\ (pgStorage_createGroup(c, group) /\ PgHasGroup(group.id))
            => (last'[c].res = "error" /\ groupsT' = groupsT /\ videosT' = videosT)
    ]_vars

\* the ids of the stored videos that carry one
FileVideoIds == {v.id : v \in Range(file.videos)} \ {ABSENT}

StoredVideoIdsUnique ==
  /\ \A i, j \in 1..Len(file.videos) :
       (i # j /\ file.videos[i].id # ABSENT) => file.videos[i].id # file.videos[j].id
  /\ \A v, w \in videosT : v.id = w.id => v = w

\* C3: no two stored videos share an id, and the id a createVideo call
\* returns is no id of a video stored before it (so two calls in a row
\* return distinct ids), on both backends.
C3_VideoIdsUnique ==
  /\ []StoredVideoIdsUnique
  /\ [][\A c \in AllClients, video \in U.videos :
          /\ fileStorage_createVideo(c, video)
               => last'[c].out.videos[1].id \notin FileVideoIds
          /\ (pgStorage_createVideo(c, video) /\ last'[c].res = "ok")
               => last'[c].out.videos[1].id \notin {IdString(v.id) : v \in videosT}
       ]_vars

\* C4: deleteGroup(id) of an existing group returns true and leaves no
\* group with that id and no video of it, every other group and video being
\* as before; of a missing id it returns false and changes nothing.
C4_DeleteGroupCascades ==
  [][\A c \in AllClients, id \in U.gids :
       /\ fileStorage_deleteGroup(c, id) =>
            IF FileHasGroup(id)
            THEN /\ last'[c].res = "true"
                 /\ \A g \in Range(file'.groups) : g.id # id
                 /\ \A v \in Range(file'.videos) : v.groupId # id
                 /\ file'.groups = SelectSeq(file.groups, LAMBDA g : g.id # id)
                 /\ file'.videos = SelectSeq(file.videos, LAMBDA v : v.groupId # id)
            ELSE last'[c].res = "false" /\ file' = file
       /\ pgStorage_deleteGroup(c, id) =>
            IF PgHasGroup(id)
            THEN /\ last'[c].res = "true"
                 /\ groupsT' = {g \in groupsT : g.id # id}
                 /\ videosT' = {v \in videosT : v.group_id # id}
            ELSE last'[c].res = "false" /\ groupsT' = groupsT /\ videosT' = videosT
    ]_vars

\* an update that changes the id of group id
IsRename(id, updates) == Truthy(updates.id) /\ updates.id # id

\* C5: updateGroup(id, {id: newId}) of an existing group that a video
\* references succeeds; afterwards each of those videos references newId,
\* a group newId exists and no group id remains, on both backends (on the
\* flat file: when id names one group of the document).
C5_RenameRepoints ==
  [][\A c \in AllClients, id \in U.gids, updates \in U.gpatches :
       IsRename(id, updates) =>
         /\ ( /\ fileStorage_updateGroup(c, id, updates)
              /\ Cardinality({k \in 1..Len(file.groups) : file.groups[k].id = id}) = 1
              /\ \E v \in Range(file.videos) : v.groupId = id )
            => /\ last'[c].res = "ok"
               /\ Len(file'.videos) = Len(file.videos)
               /\ \A k \in 1..Len(file.videos) :
                    file.videos[k].groupId = id => file'.videos[k].groupId = updates.id
               /\ \E g \in Range(file'.groups) : g.id = updates.id
               /\ \A g \in Range(file'.groups) : g.id # id
         /\ ( /\ pgStorage_updateGroup(c, id, updates)
              /\ PgHasGroup(id)
              /\ \E v \in videosT : v.group_id = id )
            => /\ last'[c].res = "ok"
               /\ \A v \in videosT :
                    v.group_id = id =>
                      \E w \in videosT' : w.id = v.id /\ w.group_id = updates.id
               /\ \E g \in groupsT' : g.id = updates.id
               /\ \A g \in groupsT' : g.id # id
    ]_vars

\* a dataset with the group record under newId and a video still under id,
\* or the group record still under id and a video already under newId
Torn(data, id, newId) ==
  \/ /\ \E g \in Range(data.groups) : g.id = newId
     /\ \E v \in Range(data.videos) : v.groupId = id
  \/ /\ \E g \in Range(data.groups) : g.id = id
     /\ \E v \in Range(data.videos) : v.groupId = newId

\* no getData that ran while another client's updateGroup ran returned a
\* torn dataset
ReadsNotTorn ==
  \A r \in AllClients, id \in U.gids, updates \in U.gpatches :
    ( /\ IsRename(id, updates)
      /\ last[r].op = "getData" /\ "updateGroup" \in last[r].during )
    => ~Torn(last[r].out, id, updates.id)

\* C6: a rename is atomic for observers: a read that runs while
\* updateGroup(id, {id: newId}) runs never returns the group record under
\* newId with a video of the group still under id, or the reverse; and the
\* rename is one change of the store: the step of updateGroup that changes
\* the stored dataset leaves a group newId and no video that references id.
C6_RenameAtomic ==
  /\ []ReadsNotTorn
  /\ [][\A c \in AllClients, id \in U.gids, updates \in U.gpatches :
          IsRename(id, updates) =>
            /\ (fileStorage_updateGroup(c, id, updates) /\ file' # file)
               => /\ \E g \in Range(file'.groups) : g.id = updates.id
                  /\ \A v \in Range(file'.videos) : v.groupId # id
            /\ (pgStorage_updateGroup(c, id, updates) /\ groupsT' # groupsT)
               => /\ \E g \in groupsT' : g.id = updates.id
                  /\ \A v \in videosT' : v.group_id # id
       ]_vars

\* a rename g1 -> g2 that re-pointed a video has returned, and the other
\* client's getData read the document while that updateGroup was running
C6_Witness ==
  \E w, r \in AllClients :
    /\ mode = "overlap" /\ backend = "file" /\ w # r
    /\ last[w].op = "updateGroup" /\ last[w].res = "ok"
    /\ last[w].out.groups[1].id = "g2"
    /\ \E v \in Range(file.videos) : v.groupId = "g2"
    /\ \A v \in Range(file.videos) : v.groupId # "g1"
    /\ last[r].op = "getData" /\ "updateGroup" \in last[r].during
    /\ \E v \in Range(last[r].out.videos) : v.groupId = "g1"

\* what getData returns when the tables hold T
SameAsTables(out, T) ==
  /\ out.groups \in OrderByName(T.groups)
  /\ out.videos = SelectVideos(T.videos)

\* what getData returns when the tables hold all of payload p and no more
SameAsPayload(out, p) ==
  /\ Len(out.groups) = Len(p.groups)
  /\ out.groups \in OrderByName({GroupRow(g) : g \in Range(p.groups)})
  /\ Len(out.videos) = Len(p.videos)
  /\ \A k \in 1..Len(p.videos) :
       out.videos[k] =
         [VideoOfRow(VideoRow(p.videos[k], 0)) EXCEPT !.id = out.videos[k].id]

\* C7: on the relational backend a getAll that runs while replaceAll(payload)
\* runs returns the whole dataset from before the call or the whole payload.
C7_ReplaceAllAtomicForReaders ==
  \A r, w \in AllClients :
    ( /\ backend = "pg" /\ r # w
      /\ pc[w] = "saveData"
      /\ last[r].op = "getData" /\ "saveData" \in last[r].during )
    => \/ SameAsTables(last[r].out, local[w].before)
       \/ SameAsPayload(last[r].out, local[w].payload)

\* C8: a replaceAll on the relational backend that fails part-way leaves the
\* stored dataset as it was before the call.
C8_ReplaceAllAllOrNothing ==
  [][\A c \in AllClients :
       ( /\ pgStorage_saveData_insertGroup(c) \/ pgStorage_saveData_insertVideo(c)
         /\ last'[c].res = "error" )
       => /\ groupsT' = local[c].before.groups
          /\ videosT' = local[c].before.videos
    ]_vars

\* an optional field holds the same value; a missing key and null are one
SameOpt(a, b) == Param(a) = Param(b)

SameGroup(g, h) ==
  g.id = h.id /\ g.name = h.name /\ SameOpt(g.description, h.description)

SameVideoButId(v, w) ==
  /\ v.groupId = w.groupId /\ v.url = w.url /\ v.username = w.username
  /\ SameOpt(v.caption, w.caption) /\ SameOpt(v.description, w.description)

\* data is exactly the one group and the one video of payload p
RoundTrips(data, p) ==
  /\ Len(data.groups) = 1 /\ SameGroup(data.groups[1], p.groups[1])
  /\ Len(data.videos) = 1 /\ SameVideoButId(data.videos[1], p.videos[1])

OneOfEach(p) ==
  /\ Len(p.groups) = 1 /\ Len(p.videos) = 1
  /\ p.videos[1].groupId = p.groups[1].id

\* the step of client c that ends its saveData on postgres
PgSaveDataEnds(c) ==
  /\ pc[c] = "saveData" /\ pc'[c] = "idle"
  /\ \/ pgStorage_saveData_deleteGroups(c)
     \/ pgStorage_saveData_insertGroup(c)
     \/ pgStorage_saveData_insertVideo(c)

\* C9: after replaceAll({groups: [G], videos: [V]}) with V.groupId = G.id,
\* getAll returns exactly one group equal to G and one video equal to V in
\* every field but id, on both backends.
C9_ReplaceAllRoundTrip ==
  [][\A c \in AllClients, p \in Payloads :
       OneOfEach(p) =>
         /\ fileStorage_saveData(c, p) => RoundTrips(file', p)
         /\ (PgSaveDataEnds(c) /\ local[c].payload = p)
            => /\ last'[c].res = "ok"
               /\ \A rows \in OrderByName(groupsT') :
                    RoundTrips([groups |-> rows, videos |-> SelectVideos(videosT')], p)
    ]_vars

\* C10: updateGroup(id, patch) of an existing group succeeds and every field
\* the patch does not supply keeps its value, on both backends.
C10_UpdateGroupMerges ==
  [][\A c \in AllClients, id \in U.gids, updates \in U.gpatches :
       /\ (fileStorage_updateGroup(c, id, updates) /\ FileHasGroup(id))
          => /\ last'[c].res = "ok"
             /\ \A f \in {"id", "name", "description"} :
                  updates[f] = ABSENT =>
                    last'[c].out.groups[1][f] = file.groups[findIndex(file.groups, id)][f]
       /\ (pgStorage_updateGroup(c, id, updates) /\ PgHasGroup(id))
          => /\ last'[c].res = "ok"
             /\ \A f \in {"id", "name", "description"} :
                  updates[f] = ABSENT =>
                    \A g \in groupsT : g.id = id => last'[c].out.groups[1][f] = g[f]
    ]_vars

\* ------------------------------------------------------------------ C11..C13
FileHasVideo(id) == \E v \in Range(file.videos) : v.id = id
PgHasVideo(id) == \E v \in videosT : IdString(v.id) = id

\* C11: updateVideo(id, patch) and updateGroup(id, patch) with an id that
\* matches no stored record return null (NotFound) and leave the whole
\* dataset as it was, on both backends.
C11_UpdateMissingIsNotFound ==
  [][\A c \in AllClients :
       /\ \A id \in U.vids, updates \in U.vpatches :
            /\ (fileStorage_updateVideo(c, id, updates) /\ ~FileHasVideo(id))
               => (last'[c].res = "null" /\ file' = file)
            /\ (pgStorage_updateVideo(c, id, updates) /\ ~PgHasVideo(id))
               => (last'[c].res = "null" /\ groupsT' = groupsT /\ videosT' = videosT)
       /\ \A id \in U.gids, updates \in U.gpatches :
            /\ (fileStorage_updateGroup(c, id, updates) /\ ~FileHasGroup(id))
               => (last'[c].res = "null" /\ file' = file)
            /\ (pgStorage_updateGroup(c, id, updates) /\ ~PgHasGroup(id))
               => (last'[c].res = "null" /\ groupsT' = groupsT /\ videosT' = videosT)
    ]_vars

\* a list of groups in ascending order of name
ByNameAscending(groups) ==
  \A i, j \in 1..Len(groups) :
    i < j => NameRank(groups[i].name) <= NameRank(groups[j].name)

\* C12: what listGroups() returns is ordered by name ascending, on both
\* backends, whatever calls came before.
C12_ListGroupsByName ==
  \A c \in AllClients :
    (last[c].op = "getGroups" /\ last[c].res = "ok")
    => ByNameAscending(last[c].out.groups)

\* the entries of a list of groups that equal group g
EntriesEqual(groups, g) == {k \in 1..Len(groups) : SameGroup(groups[k], g)}

\* C13: after createGroup(g) listGroups() holds exactly one entry equal to
\* g, from any prior state of either backend (on postgres: when the insert
\* was accepted).
C13_CreateThenListOnce ==
  [][\A c \in AllClients, group \in U.groups :
       /\ fileStorage_createGroup(c, group)
          => Cardinality(EntriesEqual(file'.groups, group)) = 1
       /\ (pgStorage_createGroup(c, group) /\ last'[c].res = "ok")
          => \A rows \in OrderByName(groupsT') :
               Cardinality(EntriesEqual(rows, group)) = 1
    ]_vars

\* ------------------------------------------------------------------ C14, C16, C17
\* the fields of a video that updateVideo is to overwrite
EditableFields == {"groupId", "url", "username", "caption", "description"}

\* the stored value of a field overwritten with patch value x; no value,
\* null and the empty string are one
Overwritten(stored, x) == OrNull(stored) = OrNull(x)

\* the video of the flat file that updateVideo(id, ...) works on
FileVideoAt(id) == findIndex(file.videos, id)

\* C14: updateVideo(id, patch) on an existing video overwrites each of
\* groupId, url, username, caption and description with the value of the
\* patch, on both backends (a field the patch omits does not keep its
\* earlier value), so both backends store the same record for a patch.
C14_UpdateVideoOverwrites ==
  [][\A c \in AllClients, id \in U.vids, updates \in U.vpatches :
       /\ (fileStorage_updateVideo(c, id, updates) /\ FileHasVideo(id))
          => \A f \in EditableFields :
               Overwritten(file'.videos[FileVideoAt(id)][f], updates[f])
       /\ (pgStorage_updateVideo(c, id, updates) /\ PgHasVideo(id)
             /\ last'[c].res = "ok")
          => \A v \in videosT' :
               IdString(v.id) = id =>
                 \A f \in EditableFields : Overwritten(VideoOfRow(v)[f], updates[f])
    ]_vars

\* C16: updateVideo(id, patch) leaves the identity of the video alone: the
\* record it returns has id equal to the id argument, and the stored video
\* ids are the same before and after, for any patch, on both backends.
C16_UpdateVideoKeepsId ==
  [][\A c \in AllClients, id \in U.vids, updates \in U.vpatches :
       /\ (fileStorage_updateVideo(c, id, updates) /\ FileHasVideo(id))
          => /\ last'[c].out.videos[1].id = id
             /\ Len(file'.videos) = Len(file.videos)
             /\ \A k \in 1..Len(file.videos) : file'.videos[k].id = file.videos[k].id
       /\ pgStorage_updateVideo(c, id, updates)
          => /\ last'[c].res = "ok" => last'[c].out.videos[1].id = id
             /\ {v.id : v \in videosT'} = {v.id : v \in videosT}
    ]_vars

\* C17: deleteVideo(id) of an existing video returns true and removes the
\* video with that id and nothing else (no group, no other video); of a
\* missing id it returns false and changes nothing.
C17_DeleteVideoNoCascade ==
  [][\A c \in AllClients, id \in U.vids :
       /\ fileStorage_deleteVideo(c, id) =>
            IF FileHasVideo(id)
            THEN /\ last'[c].res = "true"
                 /\ file'.groups = file.groups
                 /\ file'.videos = SelectSeq(file.videos, LAMBDA v : v.id # id)
            ELSE last'[c].res = "false" /\ file' = file
       /\ pgStorage_deleteVideo(c, id) =>
            IF PgHasVideo(id)
            THEN /\ last'[c].res = "true"
                 /\ groupsT' = groupsT
                 /\ videosT' = {v \in videosT : IdString(v.id) # id}
            ELSE last'[c].res = "false" /\ groupsT' = groupsT /\ videosT' = videosT
    ]_vars

\* ------------------------------------------------------------------ C15
\* C15: on the flat file overlapping mutating calls can lose an update.
\* When createGroup(group) of client c writes after another client's
\* createGroup(h) has returned, and c had read the document before h was
\* in it, c's call succeeds too and the file it leaves holds group but not
\* h.  Likewise a createVideo that had read the document before another
\* client's saveData replaced it succeeds and writes back the document it
\* read, plus its video: what saveData stored is gone.
C15_FlatFileLostUpdate ==
  [][\A c \in AllClients : \A d \in AllClients \ {c} :
       /\ \A group \in U.groups :
            ( /\ fileStorage_createGroup(c, group)
              /\ last[d].op = "createGroup" /\ last[d].res = "ok"
              /\ last[d].out.groups[1].id # group.id
              /\ last[d].out.groups[1] \notin Range(local[c].data.groups) )
            => /\ last'[c].res = "ok"
               /\ group \in Range(file'.groups)
               /\ last[d].out.groups[1] \notin Range(file'.groups)
       /\ \A video \in U.videos :
            ( /\ fileStorage_createVideo(c, video)
              /\ last[d].op = "saveData" /\ local[c].data # file )
            => /\ last'[c].res = "ok"
               /\ file'.groups = local[c].data.groups
               /\ file'.videos = Append(local[c].data.videos, last'[c].out.videos[1])
    ]_vars

\* both createGroup calls, of different ids, have returned success on a
\* document that was empty, and the file holds the group of only one of them
C15_Witness ==
  /\ mode = "overlap" /\ backend = "file"
  /\ Len(file.groups) = 1
  /\ \A c \in AllClients : last[c].op = "createGroup" /\ last[c].res = "ok"
  /\ last["c1"].out.groups[1].id # last["c2"].out.groups[1].id
  /\ Cardinality({c \in AllClients : last[c].out.groups[1] \in Range(file.groups)}) = 1

\* ------------------------------------------------------------------ C18
\* the group a video names is missing from the groups table
NamesNoGroup(video) ==
  Param(video.groupId) # NULL /\ ~PgHasGroup(Param(video.groupId))

\* every stored video references no group or a stored group
ForeignKeyHolds ==
  \A v \in videosT : v.group_id = NULL \/ \E g \in groupsT : g.id = v.group_id

\* C18: on the relational backend every stored video's group_id is null
\* or the id of a stored group, in every state, after calls that failed
\* too; a createVideo, or an updateVideo of a stored video, that names a
\* group that does not exist fails and stores nothing.
C18_PgForeignKey ==
  /\ []ForeignKeyHolds
  /\ [][\A c \in AllClients :
          /\ \A video \in U.videos :
               (pgStorage_createVideo(c, video) /\ NamesNoGroup(video))
               => (last'[c].res = "error" /\ videosT' = videosT)
          /\ \A id \in U.vids, updates \in U.vpatches :
               (pgStorage_updateVideo(c, id, updates) /\ PgHasVideo(id)
                  /\ NamesNoGroup(updates))
               => (last'[c].res = "error" /\ videosT' = videosT)
       ]_vars

\* a createVideo was refused while a video of a stored group is stored
C18_Witness ==
  /\ backend = "pg"
  /\ last["c1"].op = "createVideo" /\ last["c1"].res = "error"
  /\ \E v \in videosT : PgHasGroup(v.group_id)

\* ------------------------------------------------------------------ C19
\* the ids of a list of videos ascend as numbers
AscendingIds(videos) ==
  \A i, j \in 1..Len(videos) : i < j => ParseInt(videos[i].id) < ParseInt(videos[j].id)

\* on postgres the list is in id order and no stored id is ahead of the
\* sequence, so a video created later has the larger id
PgVideosInIdOrder ==
  /\ \A v \in videosT : v.id <= serial
  /\ \A c \in AllClients :
       (backend = "pg" /\ last[c].op = "getVideos") => AscendingIds(last[c].out.videos)

C20_HandlersAlwaysRespond ==
  \A c \in AllClients :
    /\ http[c].at # "rejected"
    /\ Len(http[c].sent) <= 1
    /\ http[c].at = "responded" =>
         /\ Len(http[c].sent) = 1
         /\ last[c].res = "error" => http[c].sent[1] = "500"
         /\ last[c].res \in {"null", "false"} => http[c].sent[1] = "404"
         /\ last[c].res \in {"ok", "true"} => http[c].sent[1] \in {"200", "201"}

====
